---- MODULE Spec2Model ----
(***************************************************************************)
(* Model of sui-catchup (cmd/sui-catchup/main.go).                         *)
(*                                                                         *)
(* Two units of execution share three atomic floats and one buffered       *)
(* channel:                                                                *)
(*   - main: the polling loop (fetch, publish, convergence check, tick);   *)
(*   - monitorChannel: the goroutine that drains metric_channel, stores    *)
(*     the gauges, computes delta/rate and renders the status line.        *)
(* The remote endpoint and the ticker are the environment.  Gauge values   *)
(* are integer-valued floats drawn from small sets (Values, SignedValues).  *)
(***************************************************************************)
EXTENDS Integers, Sequences, FiniteSets, TLC

VARIABLES
    validator_addr,             \* flag -addr
    update_interval,            \* flag -interval
    pc,                         \* position of main
    errors,                     \* main's failure counter
    metricFamilies,             \* parseReader's parsed map (name -> first gauge value)
    metric_channel,             \* the buffered channel, oldest entry first
    mpc,                        \* position of monitorChannel
    f,                          \* the entry monitorChannel received last
    highest_known_checkpoint,
    highest_synced_checkpoint,
    last_delta,
    loaded,                     \* first operand of line 72, loaded before the second
    tick,                       \* a tick is waiting in ticker.C
    out,                        \* the line written last to the live writer
    caught_up_lines,            \* number of "Node caught up" lines written
    endpoint,                   \* environment: what the remote endpoint serves
    consecutive,                \* history: failed polls since the last successful one
    applied,                    \* history: the entries applied last (see StoreRecorded)
    failed_polls,               \* history: number of polls that returned an error
    polls_ahead,                \* history: polls issued minus ticks consumed
    in_flight,                  \* history: entries sent and not yet applied, oldest first
    rate,                       \* monitorChannel's local rate, between lines 119 and 128
    seen                        \* history: what the three atomics have held (see StoreTracked)

vars == << validator_addr, update_interval, pc, errors, metricFamilies,
           metric_channel, mpc, f, highest_known_checkpoint,
           highest_synced_checkpoint, last_delta, loaded, tick, out,
           caught_up_lines, endpoint, consecutive, applied, failed_polls,
           polls_ahead, in_flight, rate, seen >>

(***************************************************************************)
(* Bounds of the model.                                                    *)
(***************************************************************************)
MaxValue == 3
MaxErrors == 3
MaxInterval == 2

\* Gauge readings: zero, one and a larger reading; and with a negative one.
Values == {0, 1, MaxValue}
SignedValues == Values \cup {0 - 1}

(***************************************************************************)
(* Program constants.                                                      *)
(***************************************************************************)
\* A channel with room for one more entry.
WiderChannel == 2 + 1

\* Line 21: make(chan *dto.MetricFamily, 2).
ChannelCapacity == 2

KnownName == "highest_known_checkpoint"
SyncedName == "highest_synced_checkpoint"

AddrEmpty == ""
AddrMalformed == ":"
AddrOk == "http://localhost:9187/metrics"

\* The failures of fetchMetricFamilies / parseReader.
RequestError == "creating GET request failed"
TransportError == "executing GET request failed"
StatusError == "returned HTTP status"
ParseError == "reading text format failed"

\* A nil *dto.MetricFamily: its getters return the zero values.
NilFamily == [name |-> "", value |-> 0]

\* metricFamilies[name] of a Go map: the family, or nil when the key is absent.
Lookup(mf, name) ==
    IF name \in DOMAIN mf THEN [name |-> name, value |-> mf[name]] ELSE NilFamily

\* f.GetName()
GetName(fam) == fam.name

\* f.GetMetric()[0].GetGauge().GetValue()
GetValue(fam) == fam.value

\* Go's integer division truncates toward zero.
GoDiv(a, b) ==
    IF a >= 0 THEN a \div b ELSE -((-a) \div b)

\* The loop of lines 64-67: one "." per count of errors.
RECURSIVE Markers(_)
Markers(n) == IF n <= 0 THEN << >> ELSE Append(Markers(n - 1), ".")

(***************************************************************************)
(* The environment: what one GET of the endpoint can produce.              *)
(***************************************************************************)
FamilyNames == {KnownName, SyncedName}

\* The parsed maps, restricted to the two families parseReader looks up: any
\* subset of them, each with its first gauge value (a family of another type
\* reads as 0 through GetGauge().GetValue()).
Payloads == UNION { [S -> Values] : S \in SUBSET FamilyNames }

\* Both target families, the node caught up: known # 0 and known - synced <= 0.
CaughtUpPayloads ==
    { mf \in Payloads :
        /\ DOMAIN mf = {KnownName, SyncedName}
        /\ mf[KnownName] # 0
        /\ mf[KnownName] - mf[SyncedName] <= 0 }

\* Both target families with positive readings.
PositivePayloads ==
    { mf \in Payloads :
        /\ DOMAIN mf = {KnownName, SyncedName}
        /\ mf[KnownName] > 0
        /\ mf[SyncedName] > 0 }

\* Only the known family, with any reading, a negative one included.
KnownOnlyPayloads == [{KnownName} -> SignedValues]

NoFamilies == [n \in {} |-> 0]

\* The profiles of the endpoint: one that answers every GET with status 200
\* and any body that parses; one that can fail in every way and serves both
\* families with positive readings; one that never exposes the synced
\* family; and the ones of the liveness and rate specifications.
HealthyEndpoint == [mode |-> "healthy", served |-> NoFamilies]
FlakyEndpoint == [mode |-> "flaky", served |-> NoFamilies]
KnownOnlyEndpoint == [mode |-> "known_only", served |-> NoFamilies]
CaughtUpEndpoint == [mode |-> "caught_up", served |-> NoFamilies]
PositiveEndpoint == [mode |-> "positive", served |-> NoFamilies]
SteadyEndpoint(mf) == [mode |-> "steady", served |-> mf]

\* The bodies a 200 response of the endpoint can carry, once parsed.
Served(ep) ==
    CASE ep.mode = "healthy" -> Payloads
      [] ep.mode = "flaky" -> PositivePayloads
      [] ep.mode = "known_only" -> KnownOnlyPayloads
      [] ep.mode = "caught_up" -> CaughtUpPayloads
      [] ep.mode = "positive" -> PositivePayloads
      [] ep.mode = "steady" -> {ep.served}

\* The ways fetchMetricFamilies can fail for this address and endpoint.
Failures(addr, ep) ==
    IF addr = AddrMalformed THEN {RequestError}
    ELSE IF ep.mode = "flaky" THEN {TransportError, StatusError, ParseError}
    ELSE {}

(***************************************************************************)
(* The lines written to the live writer.                                   *)
(***************************************************************************)
EmptyLine == [line |-> ""]

\* Lines 63-68: "Error fetching metrics: <err> <str>".
ErrorLine(err, n) == [line |-> "Error fetching metrics", err |-> err, str |-> Markers(n)]

\* A rate text that takes an unchanged gap for catching up.
RateTextZeroCatches(r, interval) ==
    IF r <= 0
    THEN [text |-> "catching up at", per_s |-> GoDiv(-r, interval)]
    ELSE [text |-> "falling behind at", per_s |-> GoDiv(r, interval)]

\* Lines 122-127: the r text.
RateText(r, interval) ==
    IF r < 0
    THEN [text |-> "catching up at", per_s |-> GoDiv(-r, interval)]
    ELSE [text |-> "falling behind at", per_s |-> GoDiv(r, interval)]

\* Line 128: "Catching up, <delta> checkpoints behind (<str>)".
StatusLine(delta, r, interval) ==
    [line |-> "Catching up", behind |-> delta, str |-> RateText(r, interval)]

\* Line 80.
CaughtUpLine == [line |-> "Node caught up"]

(***************************************************************************)
(* main                                                                    *)
(***************************************************************************)
\* A check that misses the closed gap of exactly zero.
GapClosedStrict(known, synced) == known - synced < 0

\* Line 72: highest_known_checkpoint - highest_synced_checkpoint <= 0.
GapClosed(known, synced) == known - synced <= 0

\* A counter that a successful poll resets.
CountConsecutive(n, succeededBefore) == IF succeededBefore THEN 1 ELSE n + 1

\* Line 63: errors++ (never reset: whether the previous poll succeeded does
\* not matter).
CountFailure(n, succeededBefore) == n + 1

\* Line 79: the condition of the final message.
SaysCaughtUp(known) == known # 0

\* The state at the start of main, the flags and the endpoint aside.
Started ==
    /\ pc = "main"
    /\ errors = 0
    /\ metricFamilies = NoFamilies
    /\ metric_channel = << >>
    /\ mpc = "idle"
    /\ f = NilFamily
    /\ highest_known_checkpoint = 0
    /\ highest_synced_checkpoint = 0
    /\ last_delta = 0
    /\ loaded = 0
    /\ tick = FALSE
    /\ out = EmptyLine
    /\ caught_up_lines = 0
    /\ consecutive = 0
    /\ applied = << >>
    /\ failed_polls = 0
    /\ polls_ahead = 0
    /\ in_flight = << >>
    /\ rate = 0
    /\ seen = [known |-> FALSE, closed |-> FALSE]

Init ==
    /\ validator_addr \in {AddrEmpty, AddrMalformed, AddrOk}
    /\ update_interval \in 0 .. MaxInterval
    /\ endpoint \in {HealthyEndpoint, FlakyEndpoint, KnownOnlyEndpoint}
    /\ Started

\* Lines 28-59: the flags are checked, the writer and monitorChannel are
\* started, the ticker is created (NewTicker panics on a non-positive
\* interval) and the loop is entered.
Main ==
    /\ pc = "main"
    /\ IF validator_addr = AddrEmpty
       THEN /\ pc' = "fatal"
            /\ mpc' = mpc
       ELSE IF update_interval <= 0
       THEN /\ pc' = "panic"
            /\ mpc' = "recv"
       ELSE /\ pc' = "fetch"
            /\ mpc' = "recv"
    /\ UNCHANGED << rate, validator_addr, update_interval, errors, metricFamilies,
                    metric_channel, f, highest_known_checkpoint,
                    highest_synced_checkpoint, last_delta, loaded, tick, out,
                    caught_up_lines, endpoint, consecutive, applied,
                    failed_polls, polls_ahead, in_flight, seen >>

\* Lines 61-69 and 89-105, 136-139: the fetch fails (request construction,
\* transport, status or parse); nothing is sent, the failure is counted and
\* shown, and the loop goes on to wait for the tick.
\* A failure that ends the loop.
FailureBreaks == "after_loop"

\* A failure that is retried at once, without the tick wait.
FailureRetries == "fetch"

\* Lines 69-77: after the error line and the short sleep, the tick wait.
FailurePc == "wait_tick"

\* A parse failure reported after the sends.
SentThenFailed(ch) == IF Len(ch) < ChannelCapacity THEN Append(ch, NilFamily) ELSE ch

\* Lines 91-103, 136-139: every failure returns before lines 141-142, so the
\* channel is as it was.
SentOnFailure(ch) == ch

FetchFails ==
    /\ pc = "fetch"
    /\ errors < MaxErrors
    /\ \E err \in Failures(validator_addr, endpoint) :
          /\ errors' = CountFailure(errors, consecutive = 0)
          /\ out' = ErrorLine(err, errors')
    /\ metric_channel' = SentOnFailure(metric_channel)
    /\ pc' = FailurePc
    /\ consecutive' = consecutive + 1
    /\ failed_polls' = failed_polls + 1
    /\ polls_ahead' = polls_ahead + 1
    /\ UNCHANGED << rate, validator_addr, update_interval, metricFamilies,
                    mpc, f, highest_known_checkpoint,
                    highest_synced_checkpoint, last_delta, loaded, tick,
                    caught_up_lines, endpoint, applied, in_flight, seen >>

\* The entries in flight, each one poll older.
Aged(entries) ==
    [i \in 1 .. Len(entries) |-> [entries[i] EXCEPT !.age = @ + 1]]

\* Lines 89-104 and 135-139: status 200 and a body that parses.
FetchParses ==
    /\ pc = "fetch"
    /\ validator_addr = AddrOk
    /\ \E mf \in Served(endpoint) : metricFamilies' = mf
    /\ pc' = "send_known"
    /\ polls_ahead' = polls_ahead + 1
    /\ in_flight' = Aged(in_flight)
    /\ UNCHANGED << rate, validator_addr, update_interval, errors, metric_channel,
                    mpc, f, highest_known_checkpoint,
                    highest_synced_checkpoint, last_delta, loaded, tick, out,
                    caught_up_lines, endpoint, consecutive, applied,
                    failed_polls, seen >>

\* A send that puts the entry in front of the ones waiting.
SendFront(ch, fam) == << fam >> \o ch

\* ch <- fam: blocks while the buffer is full.
Send(ch, fam) == Append(ch, fam)

\* What parseReader still reads of the map after line 141.
Remaining(mf) == [n \in DOMAIN mf \ {KnownName} |-> mf[n]]

\* The record of a sent entry: the line that sent it (141: "known", 142:
\* "synced"), the family, and the number of polls begun since.
Sent(slot, fam) == [slot |-> slot, fam |-> fam, age |-> 0]

\* Line 141: ch <- metricFamilies["highest_known_checkpoint"].
SendKnown ==
    /\ pc = "send_known"
    /\ Len(metric_channel) < ChannelCapacity
    /\ metric_channel' = Send(metric_channel, Lookup(metricFamilies, KnownName))
    /\ metricFamilies' = Remaining(metricFamilies)
    /\ pc' = "send_synced"
    /\ in_flight' = Append(in_flight, Sent("known", Lookup(metricFamilies, KnownName)))
    /\ UNCHANGED << rate, validator_addr, update_interval, errors,
                    mpc, f, highest_known_checkpoint,
                    highest_synced_checkpoint, last_delta, loaded, tick, out,
                    caught_up_lines, endpoint, consecutive, applied,
                    failed_polls, polls_ahead, seen >>

\* Lines 142-144: ch <- metricFamilies["highest_synced_checkpoint"], and the
\* fetch returns nil.
SendSynced ==
    /\ pc = "send_synced"
    /\ Len(metric_channel) < ChannelCapacity
    /\ metric_channel' = Send(metric_channel, Lookup(metricFamilies, SyncedName))
    /\ metricFamilies' = NoFamilies
    /\ consecutive' = 0
    /\ pc' = "check_known"
    /\ in_flight' = Append(in_flight, Sent("synced", Lookup(metricFamilies, SyncedName)))
    /\ UNCHANGED << rate, validator_addr, update_interval, errors, mpc, f,
                    highest_known_checkpoint, highest_synced_checkpoint,
                    last_delta, loaded, tick, out, caught_up_lines, endpoint,
                    applied, failed_polls, polls_ahead, seen >>

\* A load that clears what it reads.
LoadThenClear(value) == 0

\* Lines 71, 72 and 79: Load returns the value and leaves the atomic as it
\* is.
AfterLoad(value) == value

\* A check that goes on to the comparison whatever the known value is.
KnownUnchecked(known) == TRUE

\* Line 71: the condition highest_known_checkpoint.Load() != 0.
HasKnown(known) == known # 0

\* Line 71: if highest_known_checkpoint.Load() != 0.
CheckKnown ==
    /\ pc = "check_known"
    /\ pc' = IF HasKnown(highest_known_checkpoint) THEN "load_known" ELSE "wait_tick"
    /\ highest_known_checkpoint' = AfterLoad(highest_known_checkpoint)
    /\ UNCHANGED << rate, validator_addr, update_interval, errors, metricFamilies,
                    metric_channel, mpc, f, highest_synced_checkpoint, last_delta, loaded, tick, out,
                    caught_up_lines, endpoint, consecutive, applied,
                    failed_polls, polls_ahead, in_flight, seen >>

\* Line 72, left operand: highest_known_checkpoint.Load().
LoadKnown ==
    /\ pc = "load_known"
    /\ loaded' = highest_known_checkpoint
    /\ highest_known_checkpoint' = AfterLoad(highest_known_checkpoint)
    /\ pc' = "load_synced"
    /\ UNCHANGED << rate, validator_addr, update_interval, errors, metricFamilies,
                    metric_channel, mpc, f, highest_synced_checkpoint, last_delta, tick, out,
                    caught_up_lines, endpoint, consecutive, applied,
                    failed_polls, polls_ahead, in_flight, seen >>

\* Line 72, right operand and comparison; line 73: break.
LoadSynced ==
    /\ pc = "load_synced"
    /\ pc' = IF GapClosed(loaded, highest_synced_checkpoint)
             THEN "after_loop" ELSE "wait_tick"
    /\ loaded' = 0
    /\ highest_synced_checkpoint' = AfterLoad(highest_synced_checkpoint)
    /\ UNCHANGED << rate, validator_addr, update_interval, errors, metricFamilies,
                    metric_channel, mpc, f, highest_known_checkpoint,
                    last_delta, tick, out,
                    caught_up_lines, endpoint, consecutive, applied,
                    failed_polls, polls_ahead, in_flight, seen >>

\* Line 77: <-ticker.C.
WaitTick ==
    /\ pc = "wait_tick"
    /\ tick
    /\ tick' = FALSE
    /\ pc' = "fetch"
    /\ polls_ahead' = polls_ahead - 1
    /\ UNCHANGED << rate, validator_addr, update_interval, errors, metricFamilies,
                    metric_channel, mpc, f, highest_known_checkpoint,
                    highest_synced_checkpoint, last_delta, loaded, out,
                    caught_up_lines, endpoint, consecutive, applied,
                    failed_polls, in_flight, seen >>

\* Line 79: if highest_known_checkpoint.Load() != 0.
AfterLoop ==
    /\ pc = "after_loop"
    /\ pc' = IF SaysCaughtUp(highest_known_checkpoint) THEN "say_caught_up" ELSE "stop"
    /\ highest_known_checkpoint' = AfterLoad(highest_known_checkpoint)
    /\ UNCHANGED << rate, validator_addr, update_interval, errors, metricFamilies,
                    metric_channel, mpc, f, highest_synced_checkpoint,
                    last_delta, loaded, tick, out, caught_up_lines, endpoint,
                    consecutive, applied, failed_polls, polls_ahead,
                    in_flight, seen >>

\* Line 80: the final message is written.
SayCaughtUp ==
    /\ pc = "say_caught_up"
    /\ out' = CaughtUpLine
    /\ caught_up_lines' = caught_up_lines + 1
    /\ pc' = "stop"
    /\ UNCHANGED << rate, validator_addr, update_interval, errors, metricFamilies,
                    metric_channel, mpc, f, highest_known_checkpoint,
                    highest_synced_checkpoint, last_delta, loaded, tick,
                    endpoint, consecutive, applied, failed_polls, polls_ahead,
                    in_flight, seen >>

\* Lines 82-83: writer.Stop() and the return of main, which ends the
\* process and monitorChannel with it.  Stop changes nothing of the state
\* kept here, so what monitorChannel does between the two lines it does
\* before this step.
Return ==
    /\ pc = "stop"
    /\ pc' = "done"
    /\ UNCHANGED << rate, validator_addr, update_interval, errors, metricFamilies,
                    metric_channel, mpc, f, highest_known_checkpoint,
                    highest_synced_checkpoint, last_delta, loaded, tick, out,
                    caught_up_lines, endpoint, consecutive, applied,
                    failed_polls, polls_ahead, in_flight, seen >>

InLoop ==
    pc \in {"fetch", "send_known", "send_synced", "check_known", "load_known",
            "load_synced", "wait_tick"}

\* A monitorChannel that runs only while main waits for the tick or has
\* left the loop.
RunsBetweenPolls == pc \in {"wait_tick", "after_loop", "say_caught_up", "stop"}

\* The process runs: main has passed the flag check and has not returned.
Running == InLoop \/ pc \in {"after_loop", "say_caught_up", "stop"}

\* The ticker (line 55): its channel holds one tick; a tick that finds it
\* full is dropped.  The ticker is never stopped: it goes on sending after
\* the loop, until main returns.
Tick ==
    /\ Running
    /\ ~tick
    /\ tick' = TRUE
    /\ UNCHANGED << rate, validator_addr, update_interval, pc, errors,
                    metricFamilies, metric_channel, mpc, f,
                    highest_known_checkpoint, highest_synced_checkpoint,
                    last_delta, loaded, out, caught_up_lines, endpoint,
                    consecutive, applied,
                    failed_polls, polls_ahead, in_flight, seen >>

(***************************************************************************)
(* monitorChannel                                                          *)
(***************************************************************************)
\* Line 109: f := <-metric_channel.
Receive ==
    /\ Running
    /\ mpc = "recv"
    /\ metric_channel # << >>
    /\ f' = Head(metric_channel)
    /\ metric_channel' = Tail(metric_channel)
    /\ mpc' = "apply"
    /\ UNCHANGED << rate, validator_addr, update_interval, pc, errors,
                    metricFamilies, highest_known_checkpoint,
                    highest_synced_checkpoint, last_delta, loaded, tick, out,
                    caught_up_lines, endpoint, consecutive, applied,
                    failed_polls, polls_ahead, in_flight, seen >>

\* Lines 110-115: the switch on the family's name.
StoredKnown(fam, known) ==
    IF GetName(fam) = KnownName THEN GetValue(fam) ELSE known

StoredSynced(fam, synced) ==
    IF GetName(fam) = SyncedName THEN GetValue(fam) ELSE synced

\* Line 117: both values are non-zero.
BothSeen(known, synced) == known # 0 /\ synced # 0

\* A gap with the operands the other way round.
DeltaSwapped(known, synced) == synced - known

\* Line 118.
Delta(known, synced) == known - synced

\* Line 119.
Rate(delta, last) == delta - last

\* The last four entries of a sequence.
LastFour(seq) ==
    IF Len(seq) <= 4 THEN seq ELSE SubSeq(seq, Len(seq) - 3, Len(seq))

\* What the atomics have held up to now: a non-zero known value, and a
\* known value that is non-zero with the gap to the synced value closed.
Seen(before, known, synced) ==
    [known |-> before.known \/ known # 0,
     closed |-> before.closed \/ (known # 0 /\ known - synced <= 0)]

\* Lines 110-115: the value of the entry is stored in the atomic its name
\* selects.
StoreEntry ==
    /\ Running
    /\ mpc = "apply"
    /\ highest_known_checkpoint' = StoredKnown(f, highest_known_checkpoint)
    /\ highest_synced_checkpoint' = StoredSynced(f, highest_synced_checkpoint)
    /\ mpc' = "check"
    /\ UNCHANGED << validator_addr, update_interval, pc, errors,
                    metricFamilies, metric_channel, f, last_delta, rate,
                    loaded, tick, out, caught_up_lines, endpoint,
                    consecutive, failed_polls, polls_ahead, in_flight >>

Store ==
    /\ StoreEntry
    /\ UNCHANGED << applied, seen >>

\* Store, with the entry added to the record of the last four stored.
StoreRecorded ==
    /\ StoreEntry
    /\ applied' = LastFour(Append(applied, f))
    /\ UNCHANGED seen

\* Store, with the record of what the atomics have held brought up to
\* date.
StoreTracked ==
    /\ StoreEntry
    /\ seen' = Seen(seen, highest_known_checkpoint', highest_synced_checkpoint')
    /\ UNCHANGED applied

\* The entries in flight without the one monitorChannel has done with.
Done(entries) == IF entries = << >> THEN entries ELSE Tail(entries)

\* Lines 117-120: with both values non-zero the delta and the rate are
\* computed and last_delta is set; otherwise monitorChannel goes back to
\* line 109.  The atomics loaded here are written by monitorChannel only.
Compute ==
    /\ Running
    /\ mpc = "check"
    /\ IF BothSeen(highest_known_checkpoint, highest_synced_checkpoint)
       THEN LET delta == Delta(highest_known_checkpoint, highest_synced_checkpoint)
            IN  /\ rate' = Rate(delta, last_delta)
                /\ last_delta' = delta
                /\ mpc' = "write"
                /\ UNCHANGED << f, in_flight >>
       ELSE /\ mpc' = "recv"
            /\ f' = NilFamily
            /\ in_flight' = Done(in_flight)
            /\ UNCHANGED << rate, last_delta >>
    /\ UNCHANGED << validator_addr, update_interval, pc, errors,
                    metricFamilies, metric_channel, highest_known_checkpoint,
                    highest_synced_checkpoint, loaded, tick, out,
                    caught_up_lines, endpoint, consecutive, applied,
                    failed_polls, polls_ahead, seen >>

\* Lines 122-129: the status line is written with the delta (the value
\* just stored in last_delta) and the rate, and monitorChannel goes back to
\* line 109.
Write ==
    /\ Running
    /\ mpc = "write"
    /\ out' = StatusLine(last_delta, rate, update_interval)
    /\ rate' = 0
    /\ mpc' = "recv"
    /\ f' = NilFamily
    /\ in_flight' = Done(in_flight)
    /\ UNCHANGED << validator_addr, update_interval, pc, errors,
                    metricFamilies, metric_channel, highest_known_checkpoint,
                    highest_synced_checkpoint, last_delta, loaded, tick,
                    caught_up_lines, endpoint, consecutive, applied,
                    failed_polls, polls_ahead, seen >>

(***************************************************************************)
(* The program.                                                            *)
(***************************************************************************)
Next ==
    \/ Main
    \/ FetchFails
    \/ FetchParses
    \/ SendKnown
    \/ SendSynced
    \/ CheckKnown
    \/ LoadKnown
    \/ LoadSynced
    \/ WaitTick
    \/ AfterLoop
    \/ SayCaughtUp
    \/ Return
    \/ Tick
    \/ Receive
    \/ Store
    \/ Compute
    \/ Write

Spec == Init /\ [][Next]_vars

(***************************************************************************)
(* The program against an endpoint that never fails and serves both        *)
(* families with positive readings, with the last four applied entries     *)
(* recorded.                                                               *)
(***************************************************************************)
InitRate ==
    /\ validator_addr = AddrOk
    /\ update_interval \in 1 .. MaxInterval
    /\ endpoint = PositiveEndpoint
    /\ Started

NextRate ==
    \/ Main
    \/ FetchParses
    \/ SendKnown
    \/ SendSynced
    \/ CheckKnown
    \/ LoadKnown
    \/ LoadSynced
    \/ WaitTick
    \/ AfterLoop
    \/ SayCaughtUp
    \/ Return
    \/ Tick
    \/ Receive
    \/ StoreRecorded
    \/ Compute
    \/ Write

SpecRate == InitRate /\ [][NextRate]_vars

(***************************************************************************)
(* The program, with the record of what the atomics have held.             *)
(***************************************************************************)
NextTracked ==
    \/ Main
    \/ FetchFails
    \/ FetchParses
    \/ SendKnown
    \/ SendSynced
    \/ CheckKnown
    \/ LoadKnown
    \/ LoadSynced
    \/ WaitTick
    \/ AfterLoop
    \/ SayCaughtUp
    \/ Return
    \/ Tick
    \/ Receive
    \/ StoreTracked
    \/ Compute
    \/ Write

SpecTracked == Init /\ [][NextTracked]_vars

(***************************************************************************)
(* The program against an endpoint that never fails and, from some point   *)
(* on, serves only caught-up readings: any at each poll (caught_up), or    *)
(* the same at every poll (steady).  What the endpoint serves matters when *)
(* a request reaches it, so it settles when main is about to send one.     *)
(* The Go scheduler runs main and monitorChannel whenever they can take a  *)
(* step, and the ticker ticks.                                             *)
(***************************************************************************)
EndpointSettles ==
    /\ endpoint = HealthyEndpoint
    /\ pc = "fetch"
    /\ endpoint' \in {CaughtUpEndpoint} \cup
                     { SteadyEndpoint(mf) : mf \in CaughtUpPayloads }
    /\ UNCHANGED << rate, validator_addr, update_interval, pc, errors,
                    metricFamilies, metric_channel, mpc, f,
                    highest_known_checkpoint, highest_synced_checkpoint,
                    last_delta, loaded, tick, out, caught_up_lines,
                    consecutive, applied,
                    failed_polls, polls_ahead, in_flight, seen >>

InitLive ==
    /\ validator_addr = AddrOk
    /\ update_interval = 1
    /\ endpoint = HealthyEndpoint
    /\ Started

NextLive ==
    \/ Main
    \/ FetchParses
    \/ SendKnown
    \/ SendSynced
    \/ CheckKnown
    \/ LoadKnown
    \/ LoadSynced
    \/ WaitTick
    \/ AfterLoop
    \/ SayCaughtUp
    \/ Return
    \/ Tick
    \/ Receive
    \/ Store
    \/ Compute
    \/ Write
    \/ EndpointSettles

Fairness ==
    /\ WF_vars(Main)
    /\ WF_vars(FetchParses)
    /\ WF_vars(SendKnown)
    /\ WF_vars(SendSynced)
    /\ WF_vars(CheckKnown)
    /\ WF_vars(LoadKnown)
    /\ WF_vars(LoadSynced)
    /\ WF_vars(WaitTick)
    /\ WF_vars(AfterLoop)
    /\ WF_vars(SayCaughtUp)
    /\ WF_vars(Return)
    /\ WF_vars(Tick)
    /\ WF_vars(Receive)
    /\ WF_vars(Store)
    /\ WF_vars(Compute)
    /\ WF_vars(Write)

SpecLive == InitLive /\ [][NextLive]_vars /\ Fairness

(***************************************************************************)
(* The program against an endpoint that never fails and goes on serving    *)
(* any readings, with the same scheduling.                                 *)
(***************************************************************************)
NextFair ==
    \/ Main
    \/ FetchParses
    \/ SendKnown
    \/ SendSynced
    \/ CheckKnown
    \/ LoadKnown
    \/ LoadSynced
    \/ WaitTick
    \/ AfterLoop
    \/ SayCaughtUp
    \/ Return
    \/ Tick
    \/ Receive
    \/ Store
    \/ Compute
    \/ Write

SpecFair == InitLive /\ [][NextFair]_vars /\ Fairness

(***************************************************************************)
(* Steps of main, told by its position.                                    *)
(***************************************************************************)
\* A poll that failed: main goes from the fetch straight to the tick wait
\* (a poll that succeeds goes through the two sends).
FailedPollStep == pc = "fetch" /\ pc' \notin {"fetch", "send_known"}

\* The check ends the loop.
ConvergesStep == pc # "after_loop" /\ pc' = "after_loop"

\* main has left the loop.
LeftLoop == pc \in {"after_loop", "say_caught_up", "stop", "done"}

(***************************************************************************)
(* Steps of monitorChannel, told by its position.                          *)
(***************************************************************************)
\* monitorChannel holds an entry it has received and not yet done with.
Holding == mpc \in {"apply", "check", "write"}

\* Lines 110-115: the entry held is stored.
StoresStep == mpc = "apply" /\ mpc' = "check"

\* Lines 117-120: both values are non-zero and last_delta is set.
ComputesStep == mpc = "check" /\ mpc' = "write"

\* Line 128: the status line is written.
WritesStep == mpc = "write" /\ mpc' = "recv"

\* monitorChannel has done with the entry held: back to line 109, from
\* line 117 or from line 129.
FinishesStep == mpc \in {"check", "write"} /\ mpc' = "recv"

(***************************************************************************)
(* C1. Convergence transition rule: main leaves the loop only in the check *)
(* that directly follows a successful poll (the return of the second       *)
(* send), and exactly when the values it loads satisfy known # 0 (line 71) *)
(* and known - synced <= 0 (line 72); a failed poll, a known value of 0    *)
(* and a positive gap all lead to the tick wait.  With known = synced # 0  *)
(* loaded, the check ends the loop.                                        *)
(***************************************************************************)
C1_ConvergenceRule ==
    [][ /\ ConvergesStep => pc = "load_synced"
        /\ (pc = "load_synced" /\ pc' # pc) =>
              pc' = IF loaded - highest_synced_checkpoint <= 0
                    THEN "after_loop" ELSE "wait_tick"
        /\ (pc' = "load_synced" /\ pc' # pc) =>
              (pc = "load_known" /\ loaded' = highest_known_checkpoint)
        /\ (pc = "check_known" /\ pc' # pc) =>
              pc' = IF highest_known_checkpoint # 0
                    THEN "load_known" ELSE "wait_tick"
        /\ (pc' = "load_known" /\ pc' # pc) => pc = "check_known"
        /\ (pc' = "check_known" /\ pc' # pc) => pc = "send_synced"
        /\ FailedPollStep => pc' = "wait_tick"
      ]_vars

\* The loop was left with known = synced at the largest reading.
C1_Witness ==
    /\ pc = "after_loop"
    /\ highest_known_checkpoint = MaxValue
    /\ highest_synced_checkpoint = MaxValue

(***************************************************************************)
(* C2. Partial state tolerance, as claimed: while the known value is       *)
(* non-zero and the synced value is still 0, no synced entry having ever   *)
(* been applied (the endpoint serves the known family only), no step       *)
(* computes a delta or renders a status line, and main does not leave the  *)
(* loop, whatever the known value is, a negative one included.             *)
(***************************************************************************)
C2_PartialStateAsClaimed ==
    [][ ( /\ endpoint = KnownOnlyEndpoint
          /\ highest_known_checkpoint # 0
          /\ highest_synced_checkpoint = 0 ) =>
        ( /\ last_delta' = last_delta
          /\ out'.line # "Catching up"
          /\ ~ConvergesStep )
      ]_vars

(***************************************************************************)
(* C3. Termination on convergence, as claimed: once every poll succeeds    *)
(* and returns both families with known # 0 and known - synced <= 0, main  *)
(* eventually leaves the loop.                                             *)
(***************************************************************************)
C3_TerminatesAsClaimed ==
    (endpoint.mode = "caught_up") ~> (pc \in {"after_loop", "done"})

(***************************************************************************)
(* C3, amended. Once every poll succeeds and returns the same two readings *)
(* with known # 0 and known - synced <= 0, main eventually leaves the      *)
(* loop.                                                                   *)
(***************************************************************************)
C3_TerminatesWhenSteady ==
    (endpoint.mode = "steady") ~> (pc \in {"after_loop", "done"})

\* Main returned, with the final message, against an endpoint that had
\* settled on steady readings, which are the ones applied.
C3_Witness ==
    /\ endpoint.mode = "steady"
    /\ pc = "done"
    /\ caught_up_lines = 1
    /\ highest_known_checkpoint = endpoint.served[KnownName]
    /\ highest_synced_checkpoint = endpoint.served[SyncedName]

(***************************************************************************)
(* C4. Converged announced exactly once, as claimed: whenever main has     *)
(* returned after leaving the loop, "Node caught up" was written exactly   *)
(* once.                                                                   *)
(***************************************************************************)
C4_CaughtUpExactlyOnceAsClaimed ==
    pc = "done" => caught_up_lines = 1

(***************************************************************************)
(* C5. No fetch failure is fatal: a failed poll of any kind leaves main in *)
(* the loop, waiting for the tick; no step that counts a failure leads to  *)
(* the end of the loop or to an abort; from the tick wait main can only go *)
(* on to the next fetch, and it can do so as soon as a tick is there.      *)
(***************************************************************************)
C5_FailureNotFatal ==
    /\ [][ /\ FailedPollStep => (pc' = "wait_tick" /\ errors' = errors + 1)
           /\ errors' # errors => (pc = "fetch" /\ pc' = "wait_tick")
           /\ (pc = "wait_tick" /\ pc' # pc) => (tick /\ pc' = "fetch")
           /\ pc' \in {"fatal", "panic"} => pc \in {"main", "fatal", "panic"}
         ]_vars
    /\ []((pc = "wait_tick" /\ tick) => ENABLED WaitTick)
    /\ []((pc = "wait_tick" /\ ~tick) => ENABLED Tick)

\* After three failures in a row main is fetching again.
C5_Witness ==
    /\ pc = "fetch"
    /\ errors >= 3
    /\ consecutive >= 3

(***************************************************************************)
(* C6. Failure escalation, as claimed: the error line of every failed poll *)
(* has one marker per consecutive failed poll ending with this one, a      *)
(* successful poll resetting the count.  Line 59 sets errors to 0 once,    *)
(* before the loop, and line 63 only adds to it: after a failure, a        *)
(* success and a failure the line shows two markers for one consecutive    *)
(* failure.                                                                *)
(***************************************************************************)
C6_MarkersConsecutiveAsClaimed ==
    [][ FailedPollStep => Len(out'.str) = consecutive' ]_vars

(***************************************************************************)
(* C7. Decoder sample count, as claimed: each of the two sends of a        *)
(* successful poll adds an entry to metric_channel exactly when its family *)
(* is present in the payload, nothing is sent for an absent family, and    *)
(* monitorChannel recomputes and redraws nothing for an absent family.     *)
(***************************************************************************)
C7_SampleCountAsClaimed ==
    [][ /\ (pc = "send_known" /\ pc' # pc) =>
              Len(metric_channel') = Len(metric_channel) +
                 (IF KnownName \in DOMAIN metricFamilies THEN 1 ELSE 0)
        /\ (pc = "send_synced" /\ pc' # pc) =>
              Len(metric_channel') = Len(metric_channel) +
                 (IF SyncedName \in DOMAIN metricFamilies THEN 1 ELSE 0)
        /\ (mpc \in {"check", "write"} /\ mpc' # mpc /\ f = NilFamily) =>
              UNCHANGED << last_delta, out >>
      ]_vars

(***************************************************************************)
(* C8. A failed poll has no effect on the aggregation state: the step of a *)
(* failed poll sends nothing on metric_channel and leaves                  *)
(* highest_known_checkpoint, highest_synced_checkpoint, last_delta and     *)
(* monitorChannel's position unchanged; it changes the failure counter (by *)
(* one), the line shown (the error line) and main's position only.         *)
(***************************************************************************)
C8_FailedPollNoEffect ==
    [][ FailedPollStep =>
          /\ UNCHANGED << metric_channel, mpc, f, highest_known_checkpoint,
                          highest_synced_checkpoint, last_delta,
                          metricFamilies, caught_up_lines >>
          /\ errors' = errors + 1
          /\ out'.line = "Error fetching metrics"
      ]_vars

\* A poll failed while entries of an earlier poll were still queued and a
\* delta had been computed.
C8_Witness ==
    /\ pc = "wait_tick"
    /\ consecutive > 0
    /\ out.line = "Error fetching metrics"
    /\ metric_channel # << >>
    /\ highest_known_checkpoint # 0
    /\ highest_synced_checkpoint # 0

(***************************************************************************)
(* C9. Rate is the per-poll change in gap, as claimed: once both entries   *)
(* of the later of two consecutive successful polls that carry both        *)
(* families with non-zero values have been applied, the rate rendered last *)
(* is the gap after the later poll minus the gap after the earlier poll.   *)
(***************************************************************************)
C9_RatePerPollAsClaimed ==
    ( /\ mpc = "recv"
      /\ Len(applied) = 4
      /\ GetName(applied[1]) = KnownName /\ GetValue(applied[1]) # 0
      /\ GetName(applied[2]) = SyncedName /\ GetValue(applied[2]) # 0
      /\ GetName(applied[3]) = KnownName /\ GetValue(applied[3]) # 0
      /\ GetName(applied[4]) = SyncedName /\ GetValue(applied[4]) # 0
      /\ out.line = "Catching up" ) =>
    LET earlier == GetValue(applied[1]) - GetValue(applied[2])
        later == GetValue(applied[3]) - GetValue(applied[4])
        change == later - earlier
    IN  out.str = IF change < 0
                  THEN [text |-> "catching up at",
                        per_s |-> (0 - change) \div update_interval]
                  ELSE [text |-> "falling behind at",
                        per_s |-> change \div update_interval]

(***************************************************************************)
(* C10. Rate sign and magnitude: whenever monitorChannel computes a gap g  *)
(* with the previous last_delta p and the interval i >= 1, it sets         *)
(* last_delta to g and the rate to g - p (lines 118-120), and then, with   *)
(* both as they were set, renders g with "catching up at (p - g) / i" when *)
(* g < p and with "falling behind at (g - p) / i" when g >= p (integer     *)
(* division), so an unchanged gap is falling behind at 0.                  *)
(***************************************************************************)
C10_RateSignAndMagnitude ==
    [][ /\ ( /\ mpc = "check"
             /\ mpc' # mpc
             /\ highest_known_checkpoint # 0
             /\ highest_synced_checkpoint # 0 ) =>
           LET g == highest_known_checkpoint - highest_synced_checkpoint
               p == last_delta
           IN  /\ update_interval >= 1
               /\ mpc' = "write"
               /\ last_delta' = g
               /\ rate' = g - p
        /\ (mpc = "write" /\ mpc' = mpc) => UNCHANGED << last_delta, rate >>
        /\ (mpc = "write" /\ mpc' # mpc) =>
           LET i == update_interval
           IN  /\ out'.line = "Catching up"
               /\ out'.behind = last_delta
               /\ rate < 0 => out'.str = [text |-> "catching up at",
                                          per_s |-> (0 - rate) \div i]
               /\ rate >= 0 => out'.str = [text |-> "falling behind at",
                                           per_s |-> rate \div i]
      ]_vars

\* The gap went down by two with an interval of two seconds: catching up
\* at 1/s.
C10_Witness ==
    /\ mpc = "recv"
    /\ update_interval = 2
    /\ out.line = "Catching up"
    /\ out.str = [text |-> "catching up at", per_s |-> 1]
    /\ out.behind = last_delta

(***************************************************************************)
(* C11. No termination without a known value: as long as                   *)
(* highest_known_checkpoint has been 0 in every state so far, main has not *)
(* passed the check of line 71, has not left the loop and has not written  *)
(* "Node caught up", whatever highest_synced_checkpoint is and however     *)
(* many polls succeeded.                                                   *)
(***************************************************************************)
C11_NoTerminationWithoutKnown ==
    ~seen.known =>
        /\ highest_known_checkpoint = 0
        /\ pc \notin {"load_known", "load_synced", "after_loop",
                     "say_caught_up", "stop", "done"}
        /\ caught_up_lines = 0
        /\ out # CaughtUpLine

\* A poll succeeded, its synced value is stored and non-zero, the known
\* value has always been 0, and main has gone through the check to the
\* tick wait.
C11_Witness ==
    /\ ~seen.known
    /\ highest_synced_checkpoint # 0
    /\ errors = 0
    /\ in_flight = << >>
    /\ mpc = "recv"
    /\ pc = "wait_tick"

(***************************************************************************)
(* C12. Tick gating: between two consecutive polls main consumes exactly   *)
(* one tick, on the success path and on the failure path alike: a poll is  *)
(* issued only when every earlier poll has been followed by a consumed     *)
(* tick, main comes back to the fetch only through the tick wait, which    *)
(* takes one tick out of ticker.C, and so the number of polls issued is at *)
(* most the number of ticks consumed plus one.                             *)
(***************************************************************************)
C12_TickGating ==
    /\ [](polls_ahead \in {0, 1})
    /\ [](pc = "fetch" => polls_ahead = 0)
    /\ [][ (pc = "fetch" /\ pc' # "fetch") => polls_ahead' = 1 ]_vars
    /\ [][ (pc' = "fetch" /\ pc \notin {"fetch", "main"}) =>
              /\ pc = "wait_tick"
              /\ tick /\ ~tick'
              /\ polls_ahead = 1 /\ polls_ahead' = 0 ]_vars

\* A poll failed, a later one succeeded and its known value is stored, and
\* main is about to poll again, every earlier poll matched by a tick.
C12_Witness ==
    /\ pc = "fetch"
    /\ failed_polls >= 1
    /\ consecutive = 0
    /\ highest_known_checkpoint # 0
    /\ polls_ahead = 0

(***************************************************************************)
(* C13. Sample ordering: monitorChannel applies the entries in exactly the *)
(* order in which parseReader sent them, none lost and none reordered.     *)
(* The entry it holds and the entries waiting in metric_channel are, in    *)
(* order, the entries sent and not yet applied; in that order the entry of *)
(* line 141 (known) of a poll is followed by the entry of line 142         *)
(* (synced) of the same poll, and that one by the known entry of a later   *)
(* poll; and the entry applied by a step is the oldest of them.            *)
(***************************************************************************)
C13_SampleOrdering ==
    /\ [](LET held == IF Holding THEN << f >> ELSE << >>
              sent == [i \in 1 .. Len(in_flight) |-> in_flight[i].fam]
          IN  sent = held \o metric_channel)
    /\ [](\A i \in 1 .. Len(in_flight) - 1 :
             IF in_flight[i].slot = "known"
             THEN /\ in_flight[i + 1].slot = "synced"
                  /\ in_flight[i + 1].age = in_flight[i].age
             ELSE /\ in_flight[i + 1].slot = "known"
                  /\ in_flight[i + 1].age < in_flight[i].age)
    /\ [][ StoresStep =>
              /\ in_flight # << >>
              /\ f = Head(in_flight).fam
              /\ in_flight' = in_flight ]_vars
    /\ [][ FinishesStep =>
              /\ in_flight # << >>
              /\ f = Head(in_flight).fam
              /\ in_flight' = Tail(in_flight) ]_vars

\* monitorChannel is applying the synced entry of one poll while both
\* entries of the next poll, with another known reading, wait in the
\* channel.
C13_Witness ==
    /\ mpc = "apply"
    /\ Len(in_flight) = 3
    /\ in_flight[1].slot = "synced"
    /\ in_flight[1].age = 1
    /\ in_flight[2].fam # in_flight[3].fam
    /\ in_flight[1].fam # in_flight[3].fam
    /\ metric_channel = << in_flight[2].fam, in_flight[3].fam >>

(***************************************************************************)
(* C14. Single writer: highest_known_checkpoint, highest_synced_checkpoint *)
(* and last_delta are changed only by steps of monitorChannel (the apply   *)
(* of an entry); every step of main, of the fetch and of the sends leaves  *)
(* the three of them as they are.                                          *)
(***************************************************************************)
C14_SingleWriter ==
    /\ [][ ( \/ highest_known_checkpoint' # highest_known_checkpoint
             \/ highest_synced_checkpoint' # highest_synced_checkpoint
             \/ last_delta' # last_delta ) =>
           ((StoresStep \/ ComputesStep) /\ pc' = pc) ]_vars
    /\ [][ pc' # pc =>
              /\ highest_known_checkpoint' = highest_known_checkpoint
              /\ highest_synced_checkpoint' = highest_synced_checkpoint
              /\ last_delta' = last_delta ]_vars

\* main has loaded the known value for the comparison of line 72 and the
\* three atomics hold what monitorChannel stored: two non-zero values and
\* their gap.
C14_Witness ==
    /\ pc = "load_synced"
    /\ loaded # 0
    /\ highest_known_checkpoint = loaded
    /\ highest_synced_checkpoint # 0
    /\ last_delta = highest_known_checkpoint - highest_synced_checkpoint
    /\ last_delta # 0

(***************************************************************************)
(* C15. A configuration error is fatal before polling: with an empty -addr *)
(* main aborts before monitorChannel is started and before any poll (no    *)
(* request, no entry sent, the three atomics still 0), and an abort that   *)
(* is not the return of main after the loop happens only with an empty     *)
(* -addr.                                                                  *)
(***************************************************************************)
C15_OnlyConfigErrorAbortsAsClaimed ==
    /\ validator_addr = AddrEmpty =>
          /\ pc \in {"main", "fatal"}
          /\ mpc = "idle"
          /\ metric_channel = << >>
          /\ in_flight = << >>
          /\ polls_ahead = 0
          /\ failed_polls = 0
          /\ highest_known_checkpoint = 0
          /\ highest_synced_checkpoint = 0
          /\ last_delta = 0
    /\ pc \in {"fatal", "panic"} => validator_addr = AddrEmpty

(***************************************************************************)
(* C16. The failure counter is monotone: errors is 0 when main starts, a   *)
(* failed poll adds exactly one to it, a successful poll, the sends, the   *)
(* convergence check and the tick wait leave it as it is, so it never goes *)
(* down, and in every state it is the number of polls that have failed so  *)
(* far.                                                                    *)
(***************************************************************************)
C16_FailureCounterMonotone ==
    /\ [](pc = "main" => errors = 0)
    /\ [](errors = failed_polls)
    /\ [][ errors' >= errors ]_vars
    /\ [][ FailedPollStep => errors' = errors + 1 ]_vars
    /\ [][ ~FailedPollStep => errors' = errors ]_vars

\* Two polls have failed with a successful one in between, and main waits
\* for the tick with the counter at two.
C16_Witness ==
    /\ pc = "wait_tick"
    /\ failed_polls = 2
    /\ errors = 2
    /\ consecutive = 1
    /\ highest_known_checkpoint # 0

(***************************************************************************)
(* C17. Convergence is decided on a consistent snapshot: whenever main     *)
(* has left the loop, the atomics held, in one state at or before the      *)
(* check, a non-zero highest_known_checkpoint together with                *)
(* highest_known_checkpoint - highest_synced_checkpoint <= 0; the separate *)
(* loads of lines 71 and 72 never see a closed gap that no state had.      *)
(***************************************************************************)
C17_ConsistentSnapshotAsClaimed ==
    LeftLoop => seen.closed

(***************************************************************************)
(* C18. last_delta tracks the current gap: whenever monitorChannel waits   *)
(* for the next entry and both values are non-zero, last_delta is          *)
(* highest_known_checkpoint - highest_synced_checkpoint.  So an entry that *)
(* changes neither value (an absent or unrecognised family, a repeated     *)
(* reading) leaves last_delta as it is, and with both values non-zero it   *)
(* is rendered with a rate of 0.                                           *)
(***************************************************************************)
C18_LastDeltaTracksGap ==
    /\ []( ( /\ mpc = "recv"
             /\ highest_known_checkpoint # 0
             /\ highest_synced_checkpoint # 0 ) =>
           last_delta = highest_known_checkpoint - highest_synced_checkpoint )
    /\ [][ ( /\ StoresStep
             /\ highest_known_checkpoint' = highest_known_checkpoint
             /\ highest_synced_checkpoint' = highest_synced_checkpoint
             /\ highest_known_checkpoint # 0
             /\ highest_synced_checkpoint # 0 ) =>
           last_delta' = highest_known_checkpoint' - highest_synced_checkpoint' ]_vars
    /\ [][ ( /\ mpc = "check"
             /\ mpc' # mpc
             /\ last_delta = highest_known_checkpoint - highest_synced_checkpoint
             /\ highest_known_checkpoint # 0
             /\ highest_synced_checkpoint # 0 ) =>
           (mpc' = "write" /\ rate' = 0 /\ last_delta' = last_delta) ]_vars
    /\ [][ (WritesStep /\ rate = 0) =>
           /\ last_delta' = last_delta
           /\ out'.line = "Catching up"
           /\ out'.behind = last_delta
           /\ out'.str = [text |-> "falling behind at", per_s |-> 0] ]_vars
    /\ [][ ( /\ mpc = "check"
             /\ mpc' # mpc
             /\ ~(highest_known_checkpoint # 0 /\ highest_synced_checkpoint # 0) ) =>
           (mpc' = "recv" /\ last_delta' = last_delta /\ out' = out) ]_vars

\* With an interval of one second and a gap of two, an entry that changed
\* nothing has been applied: the status shows the gap falling behind at 0.
C18_Witness ==
    /\ mpc = "recv"
    /\ update_interval = 1
    /\ highest_known_checkpoint = 3
    /\ highest_synced_checkpoint = 1
    /\ last_delta = 2
    /\ out.line = "Catching up"
    /\ out.str = [text |-> "falling behind at", per_s |-> 0]

(***************************************************************************)
(* C19. Bounded backlog: metric_channel never holds more than two entries  *)
(* and at most three entries have been sent and not yet fully applied (the *)
(* one monitorChannel holds and the two in the channel).  So at the check  *)
(* that follows a successful poll every entry still in flight was sent by  *)
(* that poll or by the successful poll before it: the entries of all       *)
(* earlier successful polls have been applied.                             *)
(***************************************************************************)
C19_BoundedBacklog ==
    /\ Len(metric_channel) <= 2
    /\ Len(in_flight) <= 3
    /\ Len(in_flight) = Len(metric_channel) + (IF Holding THEN 1 ELSE 0)
    /\ pc \in {"check_known", "load_known", "load_synced"} =>
          \A i \in 1 .. Len(in_flight) : in_flight[i].age <= 1

\* main is at the check of line 71 with three entries in flight: the
\* synced entry of the poll before, which monitorChannel holds, and both
\* entries of the poll just made, in the channel.
C19_Witness ==
    /\ pc = "check_known"
    /\ Len(metric_channel) = 2
    /\ mpc = "apply"
    /\ Len(in_flight) = 3
    /\ in_flight[1].age = 1
    /\ in_flight[2].age = 0
    /\ in_flight[3].age = 0

(***************************************************************************)
(* C20. No deadlock between the fetch and monitorChannel: in every state   *)
(* in which main is in its loop, main (with its ticker) or monitorChannel  *)
(* can take a step, and when a send is blocked on the full channel         *)
(* monitorChannel can.  With main, the ticker and monitorChannel scheduled *)
(* fairly, a poll that has parsed its response goes through both sends and *)
(* comes to the check of line 71, and monitorChannel keeps taking the      *)
(* oldest entry out of the channel and applying it for as long as the      *)
(* process runs, which, the entries being applied in the order sent,       *)
(* brings every entry sent to its apply.                                   *)
(***************************************************************************)
C20_NoDeadlock ==
    /\ [](InLoop =>
            \/ ENABLED (FetchParses \/ SendKnown \/ SendSynced \/ CheckKnown
                           \/ LoadKnown \/ LoadSynced \/ WaitTick \/ Tick)
            \/ ENABLED (Receive \/ Store \/ Compute \/ Write))
    /\ []( ( /\ pc \in {"send_known", "send_synced"}
             /\ Len(metric_channel) = ChannelCapacity ) =>
           ENABLED (Receive \/ Store \/ Compute \/ Write) )
    /\ (pc \in {"send_known", "send_synced"}) ~> (pc = "check_known")
    /\ (mpc = "recv" /\ metric_channel # << >>) ~> (Holding \/ ~Running)
    /\ Holding ~> (mpc = "recv" \/ ~Running)

\* The send of line 141 is blocked: the channel holds the two entries of
\* the poll before and monitorChannel still applies an older entry.
C20_Witness ==
    /\ pc = "send_known"
    /\ Len(metric_channel) = ChannelCapacity
    /\ mpc = "apply"
    /\ Len(in_flight) = 3
    /\ ~ENABLED SendKnown

====
